---- MODULE Spec2Model ----
(***************************************************************************)
(* Model of library_manager.py: a catalogue of books kept in one JSON      *)
(* file.  Every operation loads the whole file, works on the loaded list   *)
(* of Book objects and, when it mutates, writes the whole list back.       *)
(*                                                                         *)
(* Text is modelled as a sequence of one-character strings, so that        *)
(* str(), int(), lower() and the substring test are computed and not       *)
(* assumed.  The two status labels of the source are written in Latin      *)
(* letters: "v_nalichii" (in stock) and "vydana" (checked out).            *)
(***************************************************************************)
EXTENDS Integers, Sequences, FiniteSets, TLC

VARIABLES fileExists, fileData, op, args, ret, raised, saved, loaded, removedIds

vars == <<fileExists, fileData, op, args, ret, raised, saved, loaded, removedIds>>

(* ------------------------------ bounds --------------------------------- *)
MaxBooks == 3
MaxId == 3

(* ------------------------------ inputs --------------------------------- *)
None == <<>>
Some(v) == <<v>>

V_NALICHII == "v_nalichii"
VYDANA == "vydana"

\* (title, author, year) arguments of add_book
AddInputs ==
    { [title |-> <<"A", "b">>, author |-> <<"X">>, year |-> 2022],
      [title |-> <<"b">>,      author |-> <<"X">>, year |-> 2023] }

\* book_id arguments of remove_book and update_book_status
IdInputs == 1..MaxId

\* status arguments of update_book_status; the last one is not a status
StatusInputs == {V_NALICHII, VYDANA, "poteryana"}

Query(title, author, year) == [title |-> title, author |-> author, year |-> year]

\* (title, author, year) arguments of search_books: every combination of
\* absent and supplied filters, empty text, and the year 0
SearchInputs ==
    { Query(None, None, None),
      Query(Some(<<"A">>), None, None),
      Query(None, Some(<<"x">>), None),
      Query(None, None, Some(2022)),
      Query(Some(<<"B">>), Some(<<"x">>), None),
      Query(None, Some(<<"y">>), Some(2022)),
      Query(Some(<<"b">>), Some(<<"X">>), Some(2022)),
      Query(Some(<<>>), Some(<<>>), None),
      Query(None, None, Some(0)) }

(* --------------------------- text helpers ------------------------------ *)
Digits == <<"0", "1", "2", "3", "4", "5", "6", "7", "8", "9">>

RECURSIVE NatToStr(_)
NatToStr(n) ==
    IF n < 10 THEN <<Digits[n + 1]>>
    ELSE Append(NatToStr(n \div 10), Digits[(n % 10) + 1])

\* Python str() of an int
str(n) == IF n < 0 THEN <<"-">> \o NatToStr(-n) ELSE NatToStr(n)

DigitVal(c) == CHOOSE d \in 0..9 : Digits[d + 1] = c

RECURSIVE StrToNat(_)
StrToNat(s) ==
    IF Len(s) = 1 THEN DigitVal(s[1])
    ELSE 10 * StrToNat(SubSeq(s, 1, Len(s) - 1)) + DigitVal(s[Len(s)])

\* Python int() of the text str() produces
int(s) == IF s[1] = "-" THEN -StrToNat(Tail(s)) ELSE StrToNat(s)

LowerChar(c) ==
    CASE c = "A" -> "a"
      [] c = "B" -> "b"
      [] c = "X" -> "x"
      [] c = "Y" -> "y"
      [] OTHER -> c

\* Python str.lower()
lower(s) == [i \in 1..Len(s) |-> LowerChar(s[i])]

\* Python "sub in s" on text
Contains(sub, s) ==
    \E i \in 0..(Len(s) - Len(sub)) : SubSeq(s, i + 1, i + Len(sub)) = sub

(* ------------------------------ Book ----------------------------------- *)
Book(id, title, author, year, status) ==
    [id |-> id, title |-> title, author |-> author, year |-> year, status |-> status]

\* variant of to_dict that writes the id into the year field
to_dict_yearFromId(book) ==
    [id |-> str(book.id), title |-> book.title, author |-> book.author,
     year |-> str(book.id), status |-> book.status]

to_dict(book) ==
    [id |-> str(book.id), title |-> book.title, author |-> book.author,
     year |-> str(book.year), status |-> book.status]

from_dict(data) ==
    Book(int(data.id), data.title, data.author, int(data.year), data.status)

(* --------------------------- persistence ------------------------------- *)
\* load_library: a missing file reads as the empty list
load_library ==
    IF fileExists THEN [i \in 1..Len(fileData) |-> from_dict(fileData[i])]
    ELSE <<>>

\* save_library: the whole list overwrites the file
save_library(books) ==
    /\ fileExists' = TRUE
    /\ fileData' = [i \in 1..Len(books) |-> to_dict(books[i])]
    /\ saved' = TRUE

NoSave ==
    /\ UNCHANGED <<fileExists, fileData>>
    /\ saved' = FALSE

(* --------------------------- operations -------------------------------- *)
IdsOf(books) == {books[i].id : i \in 1..Len(books)}

\* max((book.id for book in books), default=0)
MaxIdOf(books) ==
    IF books = <<>> THEN 0
    ELSE CHOOSE m \in IdsOf(books) : \A k \in IdsOf(books) : k <= m

\* variant of NewId that counts the records instead of taking the maximum
NewId_len(books) == Len(books) + 1

NewId(books) == MaxIdOf(books) + 1

add_book(title, author, year) ==
    LET books == load_library
        new_book == Book(NewId(books), title, author, year, V_NALICHII)
    IN /\ Len(books) < MaxBooks
       /\ new_book.id <= MaxId
       /\ save_library(Append(books, new_book))
       /\ op' = "add_book"
       /\ args' = [title |-> title, author |-> author, year |-> year]
       /\ ret' = new_book
       /\ raised' = FALSE
       /\ loaded' = TRUE

\* variant of RemoveFilter that takes book_id as a position in the list
RemoveFilter_byIndex(books, book_id) ==
    IF book_id \in 1..Len(books)
    THEN SubSeq(books, 1, book_id - 1) \o SubSeq(books, book_id + 1, Len(books))
    ELSE books

RemoveFilter(books, book_id) ==
    LET keep(book) == book.id # book_id IN SelectSeq(books, keep)

\* variant of NotFound that never takes the early return
NotFound_never(books, filtered_books) == FALSE

\* the test of remove_book for "no record had this id"
NotFound(books, filtered_books) == Len(filtered_books) = Len(books)

remove_book(book_id) ==
    LET books == load_library
        filtered_books == RemoveFilter(books, book_id)
    IN /\ IF NotFound(books, filtered_books)
          THEN /\ NoSave
               /\ ret' = FALSE
          ELSE /\ save_library(filtered_books)
               /\ ret' = TRUE
       /\ op' = "remove_book"
       /\ args' = [book_id |-> book_id]
       /\ raised' = FALSE
       /\ loaded' = TRUE

Truthy(opt, falsy) == opt # None /\ opt[1] # falsy

SearchFilter(books, title, author, year) ==
    LET byTitle(book) == Contains(lower(title[1]), lower(book.title))
        byAuthor(book) == Contains(lower(author[1]), lower(book.author))
        byYear(book) == book.year = year[1]
        r1 == IF Truthy(title, <<>>) THEN SelectSeq(books, byTitle) ELSE books
        r2 == IF Truthy(author, <<>>) THEN SelectSeq(r1, byAuthor) ELSE r1
        r3 == IF Truthy(year, 0) THEN SelectSeq(r2, byYear) ELSE r2
    IN r3

search_books(title, author, year) ==
    /\ NoSave
    /\ op' = "search_books"
    /\ args' = Query(title, author, year)
    /\ ret' = SearchFilter(load_library, title, author, year)
    /\ raised' = FALSE
    /\ loaded' = TRUE

\* variant of list_books that writes the list back, as the exit path does
list_books_saving ==
    /\ save_library(load_library)
    /\ op' = "list_books"
    /\ args' = <<>>
    /\ ret' = load_library
    /\ raised' = FALSE
    /\ loaded' = TRUE

list_books ==
    /\ NoSave
    /\ op' = "list_books"
    /\ args' = <<>>
    /\ ret' = load_library
    /\ raised' = FALSE
    /\ loaded' = TRUE

\* variants of ValidStatus: any text passes; any non-empty text passes
ValidStatus_any(status) == TRUE

ValidStatus_nonEmpty(status) == status # ""

ValidStatus(status) == status \in {V_NALICHII, VYDANA}

\* index of the first book the loop of update_book_status matches, 0 if none
FirstMatch(books, book_id) ==
    IF \E i \in 1..Len(books) : books[i].id = book_id
    THEN CHOOSE i \in 1..Len(books) :
            /\ books[i].id = book_id
            /\ \A j \in 1..(i - 1) : books[j].id # book_id
    ELSE 0

\* variant of SetStatus that does not look at the id
SetStatus_all(books, i, status) ==
    [k \in 1..Len(books) |-> [books[k] EXCEPT !.status = status]]

SetStatus(books, i, status) == [books EXCEPT ![i].status = status]

update_book_status(book_id, status) ==
    /\ op' = "update_book_status"
    /\ args' = [book_id |-> book_id, status |-> status]
    /\ IF ~ValidStatus(status)
       THEN /\ raised' = TRUE
            /\ loaded' = FALSE
            /\ ret' = None
            /\ NoSave
       ELSE LET books == load_library
                i == FirstMatch(books, book_id)
            IN /\ raised' = FALSE
               /\ loaded' = TRUE
               /\ IF i # 0
                  THEN /\ save_library(SetStatus(books, i, status))
                       /\ ret' = TRUE
                  ELSE /\ NoSave
                       /\ ret' = FALSE

\* the finally block of the program: list_books, then save_library
main_exit ==
    /\ save_library(load_library)
    /\ op' = "exit"
    /\ args' = <<>>
    /\ ret' = None
    /\ raised' = FALSE
    /\ loaded' = TRUE

\* removedIds is a history variable: the ids remove_book has removed so far.
\* The program keeps no such record; it is written only under SpecHistory.
RecordRemoved(book_id) ==
    removedIds' = IF ret' = TRUE THEN removedIds \cup {book_id} ELSE removedIds

NoRecord == UNCHANGED removedIds

AddStep == \E a \in AddInputs : add_book(a.title, a.author, a.year) /\ NoRecord
RemoveStep == \E book_id \in IdInputs : remove_book(book_id) /\ NoRecord
RemoveStepRecorded ==
    \E book_id \in IdInputs : remove_book(book_id) /\ RecordRemoved(book_id)
SearchStep ==
    \E q \in SearchInputs : search_books(q.title, q.author, q.year) /\ NoRecord
ListStep == list_books /\ NoRecord
ExitStep == main_exit /\ NoRecord
UpdateStep ==
    \E book_id \in IdInputs, status \in StatusInputs :
        update_book_status(book_id, status) /\ NoRecord

Init ==
    /\ fileExists \in BOOLEAN
    /\ fileData = <<>>
    /\ op = "init"
    /\ args = <<>>
    /\ ret = None
    /\ raised = FALSE
    /\ saved = FALSE
    /\ loaded = FALSE
    /\ removedIds = {}

Next ==
    \/ AddStep
    \/ RemoveStep
    \/ SearchStep
    \/ ListStep
    \/ UpdateStep
    \/ ExitStep

Spec == Init /\ [][Next]_vars

NextHistory ==
    \/ AddStep
    \/ RemoveStepRecorded
    \/ SearchStep
    \/ ListStep
    \/ UpdateStep
    \/ ExitStep

SpecHistory == Init /\ [][NextHistory]_vars

(* ------------------------------ claims --------------------------------- *)
\* the collection as the next operation would load it
Stored == load_library

Statuses == {V_NALICHII, VYDANA}

\* C1: no two records of the stored collection have the same id.
UniqueIds ==
    \A i, j \in 1..Len(Stored) : i # j => Stored[i].id # Stored[j].id

UniqueIdsWitness ==
    /\ op = "add_book"
    /\ Len(Stored) >= 2
    /\ ret.id > Len(Stored)

\* C2: an id that was assigned to a record and then removed is never
\* returned by a later add_book.
NoIdReuse == op = "add_book" => ret.id \notin removedIds

\* C3: add_book returns the record (max id or 0) + 1 with the arguments and
\* the default status, and the stored collection becomes the old one followed
\* by that record.
AddAppends ==
    [][op' = "add_book" =>
        LET C == Stored IN
        /\ \A i \in 1..Len(C) : C[i].id < ret'.id
        /\ \/ C = <<>> /\ ret'.id = 1
           \/ \E i \in 1..Len(C) : ret'.id = C[i].id + 1
        /\ ret'.title = args'.title
        /\ ret'.author = args'.author
        /\ ret'.year = args'.year
        /\ ret'.status = V_NALICHII
        /\ Len(Stored') = Len(C) + 1
        /\ Stored' = Append(C, ret')]_vars

AddAppendsWitness ==
    /\ op = "add_book"
    /\ Len(Stored) >= 3
    /\ Stored[Len(Stored)] = ret

\* C4: remove_book of an id the collection has returns True and leaves the
\* other records, unchanged and in their order, one record fewer.
RemoveExisting ==
    [][(op' = "remove_book" /\ args'.book_id \in IdsOf(Stored)) =>
        LET C == Stored IN
        /\ ret' = TRUE
        /\ Len(Stored') = Len(C) - 1
        /\ args'.book_id \notin IdsOf(Stored')
        /\ \E k \in 1..Len(C) :
              /\ C[k].id = args'.book_id
              /\ Stored' = SubSeq(C, 1, k - 1) \o SubSeq(C, k + 1, Len(C))]_vars

RemoveExistingWitness ==
    /\ op = "remove_book"
    /\ ret = TRUE
    /\ Len(Stored) >= 2
    /\ \E i \in 1..Len(Stored) : Stored[i].id > args.book_id
    /\ \E i \in 1..Len(Stored) : Stored[i].id < args.book_id

\* C5: remove_book and update_book_status (with a valid status) of an id the
\* collection does not have return False, do not save and leave the stored
\* collection as it was.
MissingIdNoChange ==
    [][(/\ \/ op' = "remove_book"
           \/ op' = "update_book_status" /\ args'.status \in Statuses
        /\ args'.book_id \notin IdsOf(Stored)) =>
        /\ ret' = FALSE
        /\ ~raised'
        /\ ~saved'
        /\ fileExists' = fileExists
        /\ fileData' = fileData
        /\ Stored' = Stored]_vars

MissingIdWitness ==
    /\ op \in {"remove_book", "update_book_status"}
    /\ ~raised
    /\ ret = FALSE
    /\ Stored # <<>>
    /\ \E i \in 1..Len(Stored) : args.book_id < Stored[i].id

\* C6: update_book_status with a status outside the two values raises before
\* the storage is loaded, for every id, and the stored collection is unchanged.
InvalidStatusRaises ==
    [][(op' = "update_book_status" /\ args'.status \notin Statuses) =>
        /\ raised'
        /\ ~loaded'
        /\ ~saved'
        /\ fileExists' = fileExists
        /\ fileData' = fileData
        /\ Stored' = Stored]_vars

InvalidStatusWitness ==
    /\ op = "update_book_status"
    /\ raised
    /\ args.book_id \in IdsOf(Stored)

\* C7: update_book_status of an id the collection has, with a valid status,
\* returns True and changes the status of that record and nothing else.
UpdateOnlyStatus ==
    [][(/\ op' = "update_book_status"
        /\ args'.status \in Statuses
        /\ args'.book_id \in IdsOf(Stored)) =>
        LET C == Stored IN
        /\ ret' = TRUE
        /\ Len(Stored') = Len(C)
        /\ \A i \in 1..Len(C) :
              IF C[i].id = args'.book_id
              THEN Stored'[i] = Book(C[i].id, C[i].title, C[i].author,
                                     C[i].year, args'.status)
              ELSE Stored'[i] = C[i]]_vars

UpdateOnlyStatusWitness ==
    /\ op = "update_book_status"
    /\ ~raised
    /\ ret = TRUE
    /\ Len(Stored) >= 2
    /\ \E i \in 1..Len(Stored) :
          Stored[i].id = args.book_id /\ Stored[i].status = VYDANA
    /\ \E i \in 1..Len(Stored) :
          Stored[i].id # args.book_id /\ Stored[i].status = V_NALICHII

\* C8: search_books returns exactly the records that satisfy every supplied
\* filter, in stored order; a filter is skipped only when it is absent or
\* empty text, so a supplied integer year always filters.
Supplied(opt) == opt # None /\ opt[1] # <<>>

Matches(book, q) ==
    /\ Supplied(q.title) => Contains(lower(q.title[1]), lower(book.title))
    /\ Supplied(q.author) => Contains(lower(q.author[1]), lower(book.author))
    /\ q.year # None => book.year = q.year[1]

SearchExact ==
    op = "search_books" =>
        LET hit(book) == Matches(book, args) IN ret = SelectSeq(Stored, hit)

\* C9: list_books and search_books do not save and do not change the stored
\* collection; list_books returns the whole collection in stored order, and
\* two list_books calls in a row return the same sequence.
ReadOnlyQueries ==
    [][/\ op' \in {"list_books", "search_books"} =>
            /\ ~saved'
            /\ fileExists' = fileExists
            /\ fileData' = fileData
            /\ Stored' = Stored
       /\ op' = "list_books" => ret' = Stored
       /\ (op = "list_books" /\ op' = "list_books") => ret' = ret]_vars

ReadOnlyQueriesWitness ==
    /\ op = "list_books"
    /\ Len(ret) >= 2
    /\ ret = Stored

\* C10: every stored record's status is one of the two values.
StatusInSet ==
    /\ \A i \in 1..Len(Stored) : Stored[i].status \in Statuses
    /\ \A i \in 1..Len(fileData) : fileData[i].status \in Statuses

StatusInSetWitness ==
    /\ op = "update_book_status"
    /\ raised
    /\ \E i \in 1..Len(Stored) :
          Stored[i].id = args.book_id /\ Stored[i].status = VYDANA

====
